---- MODULE Spec2Model ----
(***************************************************************************)
(* A model of stm-core: transactional variables, the per-transaction log,  *)
(* the two-phase commit of Transaction::commit, the non-deterministic      *)
(* driver and the deterministic (DeSTM) coordination protocol.             *)
(***************************************************************************)
EXTENDS Integers, Sequences, FiniteSets, TLC

\* The attempts of one driver are numbered up to MaxAttempts; the drivers
\* loop without bound, and later attempts keep the last number.
MaxAttempts == 3

\* The threads of the program; in deterministic mode a thread's number is the
\* position of its handle in the registration order.
Procs == {1, 2, 3}

\* The transactional variables, named by control-block identity: the key order
\* of the log's BTreeMap is the numeric order.
TVars == {1, 2}

----------------------------------------------------------------------------
(* Payloads: an Arc<T>.  `id` is the allocation's identity (what Arc::ptr_eq *)
(* compares), `val` the value stored in it.                                  *)

Payload(i, x) == [id |-> i, val |-> x]

NoPayload == Payload(<<0, 0, 0>>, 0)

\* TVar::new(0): the payload a variable is created with.
InitialPayload(v) == Payload(<<0, 0, v>>, 0)

\* Arc::new(value) in Transaction::write: a fresh allocation, distinct from
\* every other payload (named by the writer, its attempt and its instruction).
NewPayload(p, a, i, x) == Payload(<<p, a, i>>, x)

\* Mutant: two payloads are compared by the values they hold.
PtrEqByValue(a, b) == a.val = b.val

\* Arc::ptr_eq
PtrEq(a, b) == a.id = b.id

----------------------------------------------------------------------------
(* LogVar: how one transaction has touched one variable.                    *)

Entry(k, s, w) == [kind |-> k, snap |-> s, w |-> w]

Vacant == Entry("None", NoPayload, NoPayload)

EmptyLog == [v \in TVars |-> Vacant]

\* LogVar::read: the value the transaction observes for an occupied entry.
LogVarRead(e) ==
    IF e.kind \in {"Read", "ReadObsolete"} THEN e.snap ELSE e.w

\* LogVar::write: the entry after writing payload b to an occupied entry.
LogVarWrite(e, b) ==
    CASE e.kind = "Read" -> Entry("ReadWrite", e.snap, b)
      [] e.kind = "Write" -> Entry("Write", NoPayload, b)
      [] e.kind = "ReadWrite" -> Entry("ReadWrite", e.snap, b)
      [] e.kind = "ReadObsolete" -> Entry("ReadObsoleteWrite", e.snap, b)
      [] e.kind = "ReadObsoleteWrite" -> Entry("ReadObsoleteWrite", e.snap, b)

----------------------------------------------------------------------------
(* Transaction bodies: the closures handed to atomically / det_atomically,  *)
(* as straight-line programs over one register.                             *)

Instr(o, v, k) == [op |-> o, var |-> v, k |-> k]

\* |tx| var.write(tx, k)
BodyWrite(v, k) == << Instr("write", v, k) >>

\* |tx| { let x = var.read(tx)?; var.write(tx, x + k) }
BodyIncr(v, k) == << Instr("read", v, 0), Instr("writeAdd", v, k) >>

\* |tx| { let r = src.read(tx)?; dst.write(tx, r + k) }
BodyCopy(src, dst, k) == << Instr("read", src, 0), Instr("writeAdd", dst, k) >>

\* |tx| { let x = var.read(tx)?; if x == 0 { retry() } else { Ok(x) } }
BodyWait(v) == << Instr("read", v, 0), Instr("guard", 0, 0) >>

\* |tx| { a.write(tx, k)?; b.write(tx, k) }
BodyWriteBoth(k) == << Instr("write", 1, k), Instr("write", 2, k) >>

\* |tx| { a.read(tx)?; b.read(tx) }
BodyReadBoth == << Instr("read", 1, 0), Instr("read", 2, 0) >>

\* |tx| { let x = var.read(tx)?; guard(x != 0)?; dst.write(tx, x + k) }
BodyWaitCopy(src, dst, k) ==
    << Instr("read", src, 0), Instr("guard", 0, 0), Instr("writeAdd", dst, k) >>

\* |_| retry()
BodyRetry == << Instr("retry", 0, 0) >>

\* |_| Ok(k)
BodyConst(k) == << Instr("const", 0, k) >>

\* tx.or(f, g), as the instruction at place b of a body: the or, the first
\* closure, the end of the first closure (with the place or ends at), the
\* second closure, the end of or.
OrAt(b, f, g) ==
    << Instr("or", b + Len(f) + 1, b + Len(f) + Len(g) + 2) >> \o f
        \o << Instr("else", 0, b + Len(f) + Len(g) + 2) >> \o g
        \o << Instr("end", 0, 0) >>

\* or_simple: |tx| tx.or(|_| retry(), |tx| var.read(tx))
BodyOrSimple == OrAt(1, BodyRetry, << Instr("read", 1, 0) >>)

\* or_nocommit: |tx| tx.or(|tx| { var.write(tx, 7)?; retry() }, |tx| var.read(tx))
BodyOrNoCommit ==
    OrAt(1, << Instr("write", 1, 7), Instr("retry", 0, 0) >>, << Instr("read", 1, 0) >>)

\* |tx| { a.write(tx, 5)?;
\*        tx.or(|tx| { a.write(tx, 7)?; b.write(tx, 7)?; retry() },
\*              |tx| { let x = a.read(tx)?; b.write(tx, x + 1) }) }
BodyOrRollback ==
    << Instr("write", 1, 5) >>
        \o OrAt(2, << Instr("write", 1, 7), Instr("write", 2, 7), Instr("retry", 0, 0) >>,
                    << Instr("read", 1, 0), Instr("writeAdd", 2, 1) >>)

\* or_nested_first: |tx| tx.or(|tx| tx.or(|_| retry(), |_| retry()), |tx| var.read(tx))
BodyOrNestedFirst ==
    OrAt(1, OrAt(2, BodyRetry, BodyRetry), << Instr("read", 1, 0) >>)

\* or_nested_second: |tx| tx.or(|_| retry(), |t| t.or(|t2| var.read(t2), |_| retry()))
BodyOrNestedSecond ==
    OrAt(1, BodyRetry, OrAt(4, << Instr("read", 1, 0) >>, BodyRetry))

\* |tx| tx.or(|tx| { a.read(tx)?; retry() }, |tx| a.write(tx, 4))
BodyOrReadThenWrite ==
    OrAt(1, << Instr("read", 1, 0), Instr("retry", 0, 0) >>, << Instr("write", 1, 4) >>)

\* |tx| tx.or(|tx| { b.read(tx)?; retry() }, |tx| a.read(tx))
BodyOrReadBoth ==
    OrAt(1, << Instr("read", 2, 0), Instr("retry", 0, 0) >>, << Instr("read", 1, 0) >>)

\* |tx| tx.or(|tx| { tx.or(|tx| { a.read(tx)?; retry() }, |_| Ok(0))?;
\*                   a.write(tx, 7)?; retry() },
\*            |_| Ok(1))
BodyOrObsoleteWrite ==
    OrAt(1, OrAt(2, << Instr("read", 1, 0), Instr("retry", 0, 0) >>, BodyConst(0))
                \o << Instr("write", 1, 7), Instr("retry", 0, 0) >>,
            BodyConst(1))

\* The identity laws: accesses that fill the log, then the body f.
\* |tx| { a.write(tx, 5)?; b.read(tx)?; let x = a.read(tx)?; b.write(tx, x + 1) }
LawPrefix == << Instr("write", 1, 5), Instr("read", 2, 0) >>

LawBody == << Instr("read", 1, 0), Instr("writeAdd", 2, 1) >>

\* |tx| { a.read(tx)?; a.write(tx, 4)?; b.read(tx) }
LawPrefixB == << Instr("read", 1, 0) >>

LawBodyB == << Instr("write", 1, 4), Instr("read", 2, 0) >>

\* transaction_nested_fail: |_| { with(NonDeterministic, |_| Ok(42)); Ok(1) }
BodyNested == << Instr("nested", 0, 0), Instr("const", 0, 1) >>

\* |tx| { a.write(tx, 7)?; b.write(tx, 7)?; panic!() }
BodyPanicAfterWrite ==
    << Instr("write", 1, 7), Instr("write", 2, 7), Instr("panic", 0, 0) >>

\* |tx| { let x = a.read(tx)?; guard(x != 0)?; b.write(tx, 7)?; panic!() }
BodyPanicAfterWait ==
    << Instr("read", 1, 0), Instr("guard", 0, 0), Instr("write", 2, 7), Instr("panic", 0, 0) >>

\* |tx| tx.or(|tx| { a.write(tx, 7)?; panic!() }, |_| Ok(1))
BodyPanicInOr == OrAt(1, << Instr("write", 1, 7), Instr("panic", 0, 0) >>, BodyConst(1))

\* |tx| { v.read(tx)?; v.read(tx)?; v.write(tx, 5)?; let x = v.read(tx)?;
\*        v.write(tx, x + 1)?; v.read(tx) }
BodyReadWriteRead ==
    << Instr("read", 1, 0), Instr("read", 1, 0), Instr("write", 1, 5),
       Instr("read", 1, 0), Instr("writeAdd", 1, 1), Instr("read", 1, 0) >>

\* stm_nested: |tx| { var.write(tx, 42)?; var.read(tx) }
BodyWriteRead == << Instr("write", 1, 42), Instr("read", 1, 0) >>

\* |tx| { tx.or(|tx| { a.read(tx)?; retry() }, |_| Ok(0))?;
\*        let x = a.read(tx)?; b.write(tx, x + 1) }
BodyOrThenRead ==
    OrAt(1, << Instr("read", 1, 0), Instr("retry", 0, 0) >>, BodyConst(0))
        \o << Instr("read", 1, 0), Instr("writeAdd", 2, 1) >>

\* |tx| tx.or(|tx| { a.read(tx)?; retry() }, |tx| a.read(tx))
BodyOrReadTwice ==
    OrAt(1, << Instr("read", 1, 0), Instr("retry", 0, 0) >>, << Instr("read", 1, 0) >>)

\* Option<T> in the body's register: None, and Some(x) for the values x >= 0
\* the bodies compute.
OptNone == 0 - 1

OptSome(x) == 100 + x

\* Mutant: the second closure of optionally answers Ok(Some(0)).
OptionallyElseSome == << Instr("const", 0, 0), Instr("some", 0, 0) >>

\* The second closure of optionally: |_| Ok(None).
OptionallyElse == << Instr("none", 0, 0) >>

\* optionally(tx, f), as the instruction at place b of a body:
\* tx.or(|t| f(t).map(Some), |_| Ok(None)).
OptionallyAt(b, f) == OrAt(b, f \o << Instr("some", 0, 0) >>, OptionallyElse)

\* optionally_succeed: |t| optionally(t, |_| Ok(42))
BodyOptSucceed == OptionallyAt(1, BodyConst(42))

\* optionally_fail: |t| optionally(t, |_| retry())
BodyOptFail == OptionallyAt(1, BodyRetry)

\* |tx| { a.write(tx, 5)?;
\*        optionally(tx, |tx| { a.write(tx, 7)?; b.write(tx, 7)?; retry() }) }
BodyOptRollback ==
    << Instr("write", 1, 5) >>
        \o OptionallyAt(2, << Instr("write", 1, 7), Instr("write", 2, 7),
                               Instr("retry", 0, 0) >>)

\* |tx| { a.write(tx, 5)?; optionally(tx, |tx| { b.write(tx, 7)?; a.read(tx) }) }
BodyOptKeep ==
    << Instr("write", 1, 5) >>
        \o OptionallyAt(2, << Instr("write", 2, 7), Instr("read", 1, 0) >>)

\* |tx| optionally(tx, |tx| { let x = a.read(tx)?; guard(x != 0)?; Ok(x) })
BodyOptWait == OptionallyAt(1, BodyWait(1))

\* |tx| { b.write(tx, k)?; a.write(tx, k) }
BodyWriteBothRev(k) == << Instr("write", 2, k), Instr("write", 1, k) >>

\* |tx| { let x = b.read(tx)?; a.write(tx, x + k) }, and the other way round
BodyCrossA(k) == << Instr("read", 2, 0), Instr("writeAdd", 1, k) >>

BodyCrossB(k) == << Instr("read", 1, 0), Instr("writeAdd", 2, k) >>

Idle == << >>

Progs(a, b, c) == [p \in Procs |-> IF p = 1 THEN a ELSE IF p = 2 THEN b ELSE c]

\* f, tx.or(|_| retry(), f) and tx.or(f, |_| retry()), each after the prefix,
\* one per thread.
Laws(prefix, f) ==
    Progs(prefix \o f,
          prefix \o OrAt(Len(prefix) + 1, BodyRetry, f),
          prefix \o OrAt(Len(prefix) + 1, f, BodyRetry))

\* A program run by with(): the control function is |_| Retry.
Scenario(m, o, n, pr) ==
    [mode |-> m, order |-> o, part |-> n, prog |-> pr, control |-> "Retry"]

\* The same program run by with_control with the control function |_| c.
Controlled(s, c) == [s EXCEPT !.control = c]

\* |tx| { a.write(tx, 7)?; retry() }
BodyWriteRetry == << Instr("write", 1, 7), Instr("retry", 0, 0) >>

\* Programs run by atomically on two or three threads.
NonDetScenarios ==
    { Scenario("nd", "none", {1, 2}, Progs(BodyIncr(1, 1), BodyWrite(1, 3), Idle)),
      Scenario("nd", "none", {1, 2}, Progs(BodyWriteBoth(1), BodyWriteBoth(2), Idle)),
      Scenario("nd", "none", {1, 2}, Progs(BodyCopy(2, 1, 1), BodyWrite(2, 3), Idle)),
      Scenario("nd", "none", {1, 2}, Progs(BodyWait(1), BodyWrite(1, 3), Idle)),
      Scenario("nd", "none", {1, 2}, Progs(BodyReadBoth, BodyWriteBoth(2), Idle)),
      Scenario("nd", "none", {1, 2, 3},
               Progs(BodyIncr(1, 1), BodyWrite(1, 3), BodyWrite(1, 2))),
      Scenario("nd", "none", {1}, Progs(BodyRetry, Idle, Idle)),
      Scenario("nd", "none", {1, 2}, Progs(BodyOrSimple, BodyWrite(1, 3), Idle)),
      Scenario("nd", "none", {1, 2}, Progs(BodyOrNoCommit, BodyWrite(1, 3), Idle)),
      Scenario("nd", "none", {1, 2}, Progs(BodyOrRollback, BodyWrite(2, 3), Idle)),
      Scenario("nd", "none", {1, 2}, Progs(BodyOrNestedFirst, BodyWrite(1, 3), Idle)),
      Scenario("nd", "none", {1, 2}, Progs(BodyOrNestedSecond, BodyWrite(1, 3), Idle)),
      Scenario("nd", "none", {1, 2}, Progs(BodyOrReadThenWrite, BodyWrite(1, 3), Idle)),
      Scenario("nd", "none", {1, 2}, Progs(BodyOrReadBoth, BodyWrite(2, 3), Idle)),
      Scenario("nd", "none", {1, 2}, Progs(BodyOrObsoleteWrite, BodyWrite(1, 3), Idle)),
      Scenario("nd", "none", {1, 2, 3}, Laws(LawPrefix, LawBody)),
      Scenario("nd", "none", {1, 2, 3}, Laws(LawPrefixB, LawBodyB)),
      Scenario("nd", "none", {1, 2}, Progs(BodyNested, BodyWrite(1, 3), Idle)),
      Scenario("nd", "none", {1, 2}, Progs(BodyPanicAfterWrite, BodyWriteBoth(2), Idle)),
      Scenario("nd", "none", {1, 2}, Progs(BodyPanicAfterWait, BodyWrite(1, 3), Idle)),
      Scenario("nd", "none", {1, 2}, Progs(BodyPanicInOr, BodyWrite(1, 3), Idle)),
      Scenario("nd", "none", {1, 2}, Progs(BodyReadWriteRead, BodyWrite(1, 3), Idle)),
      Scenario("nd", "none", {1, 2}, Progs(BodyWriteRead, BodyWrite(1, 3), Idle)),
      Scenario("nd", "none", {1, 2}, Progs(BodyOrReadTwice, BodyWrite(1, 3), Idle)),
      Scenario("nd", "none", {1, 2}, Progs(BodyOrThenRead, BodyWrite(1, 3), Idle)),
      Scenario("nd", "none", {1}, Progs(BodyOptSucceed, Idle, Idle)),
      Scenario("nd", "none", {1}, Progs(BodyOptFail, Idle, Idle)),
      Scenario("nd", "none", {1, 2}, Progs(BodyOptRollback, BodyWrite(2, 3), Idle)),
      Scenario("nd", "none", {1, 2}, Progs(BodyOptKeep, BodyWrite(2, 3), Idle)),
      Scenario("nd", "none", {1, 2}, Progs(BodyOptWait, BodyWrite(1, 3), Idle)),
      Scenario("nd", "none", {1, 2, 3},
               Progs(BodyWriteBoth(1), BodyWriteBothRev(2), BodyReadBoth)),
      Scenario("nd", "none", {1, 2}, Progs(BodyCrossA(1), BodyCrossB(2), Idle)),
      Scenario("nd", "none", {1, 2}, Progs(BodyIncr(1, 1), BodyWrite(1, 0), Idle)),
      Scenario("nd", "none", {1, 2, 3},
               Progs(BodyReadBoth, BodyWrite(1, 3), BodyWrite(1, 0))),
      Controlled(Scenario("nd", "none", {1}, Progs(BodyRetry, Idle, Idle)), "Abort"),
      Controlled(Scenario("nd", "none", {1, 2},
                          Progs(BodyIncr(1, 1), BodyWrite(1, 3), Idle)), "Abort"),
      Controlled(Scenario("nd", "none", {1, 2},
                          Progs(BodyWait(1), BodyWrite(1, 3), Idle)), "Abort"),
      Controlled(Scenario("nd", "none", {1, 2},
                          Progs(BodyWriteRetry, BodyIncr(1, 1), Idle)), "Abort") }

\* freeze before the threads are spawned (deterministic_dep_order) or after
\* (freeze_after_spawn).
Orders == {"freeze_first", "spawn_first"}

\* Programs run by det_atomically, one registered handle per thread; thread p
\* holds the p-th handle registered.
DetPrograms ==
    { Scenario("det", "any", {1}, Progs(BodyWrite(1, 1), Idle, Idle)),
      Scenario("det", "any", {1, 2}, Progs(BodyWrite(1, 1), BodyWrite(1, 2), Idle)),
      Scenario("det", "any", {1, 2, 3},
               Progs(BodyWrite(1, 1), BodyWrite(1, 2), BodyWrite(1, 3))),
      Scenario("det", "any", {1, 2, 3},
               Progs(BodyWrite(1, 1), BodyCopy(1, 2, 1), BodyWrite(1, 3))),
      Scenario("det", "any", {1, 2, 3},
               Progs(BodyWait(2), BodyWrite(1, 2), BodyWrite(2, 3))),
      Scenario("det", "any", {1, 2}, Progs(BodyNested, BodyWrite(1, 2), Idle)),
      Scenario("det", "any", {1, 2}, Progs(BodyPanicAfterWrite, BodyWrite(1, 2), Idle)),
      Controlled(Scenario("det", "any", {1, 2, 3},
                          Progs(BodyWriteRetry, BodyIncr(1, 1), BodyWrite(1, 3))), "Abort") }

DetScenarios ==
    { [s EXCEPT !.order = o] : s \in DetPrograms, o \in Orders }

Scenarios == NonDetScenarios \cup DetScenarios

\* Coordination::register, called once per handle: the registration order.
Registered(s) ==
    IF s.mode = "det" THEN [i \in 1..Cardinality(s.part) |-> i] ELSE << >>

\* The token channels of one round, named by their place in the chain:
\* channel i feeds the i-th active participant.
Chans == Procs

----------------------------------------------------------------------------
VARIABLES
    scen,      \* the program being run (fixed by Init)
    cell,      \* VarControlBlock.value: the committed payload of each variable
    lockW,     \* the thread holding each variable's write lock, or 0
    lockR,     \* the threads holding each variable's read lock
    pc,        \* where each thread is
    ip,        \* the next instruction of the body
    reg,       \* the body's local x
    att,       \* the number of the current attempt
    log,       \* Transaction.vars of each thread
    stk,       \* the calls of Transaction::or in progress: their backup logs
    dead,      \* history: the payloads written in branches of or given up
    seen,      \* history: the variables whose committed payload this attempt read
    acc,       \* history: what this attempt's calls of read and write did
    woken,     \* history: the variables each thread's commit has called wake_all on
    running,   \* TRANSACTION_RUNNING of each thread
    ci,        \* commit: the key the iteration over the log is at
    commitOk,  \* what the last commit() returned
    ret,       \* what the driver returned: <<"pending">>, <<"some", x>>, <<"none">>
    okAtt,     \* history: the attempt whose commit passed validation (0: none)
    stale,     \* history: the variables read by this attempt and since replaced
    commitSeq, \* history: the successful deterministic commits, in order
    spawned,   \* the participant threads have been spawned
    cpc,       \* where the thread that called freeze is
    txs,       \* Coordination.txs: the active participants, in order
    di,        \* the coordinator's position in its loop over txs
    retries,   \* coordinate: the participants that reported Retry
    round,     \* the number of the round being run
    coordQ,    \* per participant: the coordination channel's messages
    doneQ,     \* per participant: the done channel's messages
    handleAlive, \* per participant: its TxHandle (done_tx, coordination_rx) exists
    stateAlive,  \* per participant: its TxCoordinationState exists
    tok,       \* per token channel: the tokens in it
    rxAlive,   \* per token channel: its Receiver exists
    txAlive,   \* per token channel: its Sender exists
    myRx,      \* per participant: the token channel it receives on (0: none)
    myTx,      \* per participant: the token channel it sends on (0: none)
    dec        \* per participant: the decision of the round

tvarVars == << cell, lockW, lockR >>

bodyVars == << ip, reg, log >>

chanVars == << coordQ, doneQ, handleAlive, stateAlive, tok, rxAlive, txAlive, myRx, myTx >>

coordVars == << spawned, cpc, txs, di, retries, round >>

vars == << acc, seen, stk, dead, running, scen, woken, cell, lockW, lockR, pc, ip, reg, att, log, ci, commitOk, ret,
           okAtt, stale, commitSeq, spawned, cpc, txs, di, retries, round,
           coordQ, doneQ, handleAlive, stateAlive, tok, rxAlive, txAlive,
           myRx, myTx, dec >>

Prog(p) == scen.prog[p]

----------------------------------------------------------------------------
(* The log's keys in BTreeMap order.                                        *)

LogKeys(l) == {v \in TVars : l[v].kind # "None"}

MinOf(S) == IF S = {} THEN 0 ELSE CHOOSE v \in S : \A u \in S : v <= u

\* Mutant: the log iterates over its entries in the order the body wrote
\* them (entries only read come first).
KeysInInsertionOrder(l) ==
    LET K == LogKeys(l)
        n == Cardinality(K)
        at(v) == IF l[v].kind \in {"Write", "ReadWrite", "ReadObsoleteWrite"}
                 THEN l[v].w.id[3] ELSE 0
    IN CHOOSE s \in [1..n -> K] :
          \A i, j \in 1..n : i < j => (s[i] # s[j] /\ at(s[i]) <= at(s[j]))

\* The keys of the log as `for (var, value) in &self.vars` meets them: the
\* BTreeMap's order, which is the order of the control blocks' identities.
KeysInOrder(l) ==
    LET K == LogKeys(l)
        n == Cardinality(K)
    IN CHOOSE s \in [1..n -> K] : \A i, j \in 1..n : i < j => s[i] < s[j]

FirstKey(l) == IF LogKeys(l) = {} THEN 0 ELSE KeysInOrder(l)[1]

NextKey(l, v) ==
    LET s == KeysInOrder(l)
        i == CHOOSE j \in DOMAIN s : s[j] = v
    IN IF i < Cardinality(LogKeys(l)) THEN s[i + 1] ELSE 0

WritesKinds == {"Write", "ReadWrite", "ReadObsoleteWrite"}

WrittenKeys(l) == {v \in TVars : l[v].kind \in WritesKinds}

\* Entries whose snapshot commit validates.
LiveReadKinds == {"Read", "ReadWrite"}

\* History: nothing read or written yet in this attempt.
NoAccess ==
    [first |-> [v \in TVars |-> NoPayload],
     w |-> [v \in TVars |-> NoPayload],
     got |-> [v \in TVars |-> NoPayload],
     rolled |-> {}]

----------------------------------------------------------------------------
Init ==
    /\ scen \in Scenarios
    /\ cell = [v \in TVars |-> InitialPayload(v)]
    /\ lockW = [v \in TVars |-> 0]
    /\ lockR = [v \in TVars |-> {}]
    /\ pc = [p \in Procs |-> "idle"]
    /\ ip = [p \in Procs |-> 1]
    /\ reg = [p \in Procs |-> 0]
    /\ att = [p \in Procs |-> 0]
    /\ log = [p \in Procs |-> EmptyLog]
    /\ stk = [p \in Procs |-> << >>]
    /\ dead = [p \in Procs |-> {}]
    /\ seen = [p \in Procs |-> {}]
    /\ acc = [p \in Procs |-> NoAccess]
    /\ woken = [p \in Procs |-> {}]
    /\ running = [p \in Procs |-> FALSE]
    /\ ci = [p \in Procs |-> 0]
    /\ commitOk = [p \in Procs |-> FALSE]
    /\ ret = [p \in Procs |-> <<"pending">>]
    /\ okAtt = [p \in Procs |-> 0]
    /\ stale = [p \in Procs |-> {}]
    /\ commitSeq = << >>
    /\ spawned = FALSE
    /\ cpc = "unfrozen"
    /\ txs = Registered(scen)
    /\ di = 0
    /\ retries = << >>
    /\ round = 0
    /\ coordQ = [p \in Procs |-> << >>]
    /\ doneQ = [p \in Procs |-> << >>]
    /\ handleAlive = [p \in Procs |-> scen.mode = "det" /\ p \in scen.part]
    /\ stateAlive = [p \in Procs |-> scen.mode = "det" /\ p \in scen.part]
    /\ tok = [c \in Chans |-> 0]
    /\ rxAlive = [c \in Chans |-> FALSE]
    /\ txAlive = [c \in Chans |-> FALSE]
    /\ myRx = [p \in Procs |-> 0]
    /\ myTx = [p \in Procs |-> 0]
    /\ dec = [p \in Procs |-> "none"]

----------------------------------------------------------------------------
(* The body: Transaction::read and Transaction::write, one call per step.   *)

\* TVar::read_ref_atomic: clone the committed payload under the read lock.
CanReadAtomic(v) == lockW[v] = 0

ReadRefAtomic(v) == cell[v]

\* Mutant: read always takes the committed payload.
TxReadValueFresh(l, v) == ReadRefAtomic(v)

\* Transaction::read: the payload returned and the log afterwards.
TxReadValue(l, v) ==
    IF l[v].kind # "None" THEN LogVarRead(l[v]) ELSE ReadRefAtomic(v)

TxReadLog(l, v) ==
    IF l[v].kind # "None" THEN l
    ELSE [l EXCEPT ![v] = Entry("Read", ReadRefAtomic(v), NoPayload)]

\* Transaction::write: the log after writing the boxed value b to v.
TxWriteLog(l, v, b) ==
    IF l[v].kind # "None" THEN [l EXCEPT ![v] = LogVarWrite(l[v], b)]
    ELSE [l EXCEPT ![v] = Entry("Write", NoPayload, b)]

----------------------------------------------------------------------------
(* Transaction::or and Transaction::combine.                                *)

\* LogVar::obsolete: what an entry of a log given up leaves behind: its read
\* snapshot as ReadObsolete; a pure write leaves nothing (Vacant is None).
Obsolete(e) ==
    IF e.kind \in {"Read", "ReadWrite", "ReadObsolete", "ReadObsoleteWrite"}
    THEN Entry("ReadObsolete", e.snap, NoPayload)
    ELSE Vacant

\* Mutant: combine replaces an entry the live log already has.
CombineEntryReplace(mine, theirs) ==
    IF Obsolete(theirs).kind # "None" THEN Obsolete(theirs) ELSE mine

\* combine, for one variable: self.vars.entry(var).or_insert(value) when
\* value.obsolete() is Some(value).
CombineEntry(mine, theirs) ==
    IF Obsolete(theirs).kind # "None" /\ mine.kind = "None"
    THEN Obsolete(theirs) ELSE mine

\* Transaction::combine
Combine(l, other) == [v \in TVars |-> CombineEntry(l[v], other[v])]

\* One call of or in progress: the backup `copy` (after the swap: the log of
\* the first branch), where the second closure starts and where or ends.
Frame(c, e, n, sec) == [copy |-> c, els |-> e, end |-> n, second |-> sec]

\* The payloads a log would publish.
WrittenIds(l) == {l[v].w.id : v \in WrittenKeys(l)}

\* Mutant: the second closure runs on the log the first one left.
OrNotRestored(top, l) == l

\* mem::swap(self, &mut copy): the log the second closure runs on is the
\* backup taken before the first closure ran.
OrRestored(top, l) == top.copy

\* Mutant: or answers Failure when both closures retried.
SecondRetriedFails == "Failure"

\* match s { Err(Failure) => Err(Failure), s => { self.combine(copy); s } }
\* for s = Err(Retry): the logs are combined and or returns Err(Retry).
SecondRetried == "Retry"

\* A closure returned Err(Retry) with the calls of or in st in progress and
\* the live log l: the innermost or whose first closure it was swaps the logs
\* and goes on with its second closure at `ip`; an or whose second closure
\* it was combines and returns Err(Retry) to its caller in turn; with no or
\* left the body has returned the error.
RECURSIVE OrRetry(_, _, _)
OrRetry(st, l, d) ==
    IF st = << >>
    THEN [stk |-> << >>, log |-> l, dead |-> d, ip |-> 0, err |-> "Retry"]
    ELSE LET top == st[Len(st)]
             rest == SubSeq(st, 1, Len(st) - 1)
         IN IF ~top.second
            THEN [stk |-> Append(rest, Frame(l, top.els, top.end, TRUE)),
                  log |-> OrRestored(top, l),
                  dead |-> d \cup (WrittenIds(l) \ WrittenIds(top.copy)),
                  ip |-> top.els + 1,
                  err |-> "None"]
            ELSE IF SecondRetried = "Failure"
            THEN [stk |-> << >>, log |-> l, dead |-> d, ip |-> 0, err |-> "Failure"]
            ELSE OrRetry(rest, Combine(l, top.copy), d)

\* History: var.read(tx), the first access of the attempt to v, takes the
\* committed payload.
AfterRead(a, v) ==
    IF a.first[v] = NoPayload /\ a.w[v] = NoPayload
    THEN [a EXCEPT !.first[v] = ReadRefAtomic(v)] ELSE a

\* History: the payload var.read(tx) has returned, when it is not one the
\* attempt wrote itself.
AfterGot(a, l, v) ==
    IF l[v].kind \in {"None", "Read", "ReadObsolete"}
    THEN [a EXCEPT !.got[v] = TxReadValue(l, v)] ELSE a

\* History: var.write(tx, x) with the boxed value b.
AfterWrite(a, v, b) == [a EXCEPT !.w[v] = b]

\* History: a swap of the logs in or takes back the writes of the closure
\* given up; `rolled` are the variables whose read snapshot went with them.
AfterSwap(a, before, after) ==
    [a EXCEPT !.w = [v \in TVars |->
                        IF after[v].kind \in WritesKinds THEN after[v].w ELSE NoPayload],
              !.got = [v \in TVars |->
                          IF after[v].kind # "None" /\ after[v].snap = a.got[v]
                          THEN a.got[v] ELSE NoPayload],
              !.rolled = @ \cup {v \in TVars : before[v].snap # after[v].snap}]

\* Where the thread is once its body has returned Err(e).
AfterErr(e) == IF e = "Failure" THEN "failed" ELSE "retrying"

\* One call of the body on the transaction; retry() and a failed guard
\* return Err(Retry) from the closure they are in.
BodyStep(p) ==
    /\ pc[p] = "body"
    /\ ip[p] <= Len(Prog(p))
    /\ Prog(p)[ip[p]].op \notin {"nested", "panic"}
    /\ LET i == Prog(p)[ip[p]]
           st == stk[p]
           r == OrRetry(st, log[p], dead[p])
       IN
       CASE i.op = "read" ->
              /\ log[p][i.var].kind = "None" => CanReadAtomic(i.var)
              /\ reg' = [reg EXCEPT ![p] = TxReadValue(log[p], i.var).val]
              /\ log' = [log EXCEPT ![p] = TxReadLog(log[p], i.var)]
              /\ ip' = [ip EXCEPT ![p] = @ + 1]
              /\ seen' = [seen EXCEPT ![p] =
                            IF log[p][i.var].kind = "None" THEN @ \cup {i.var} ELSE @]
              /\ acc' = [acc EXCEPT ![p] = AfterGot(AfterRead(@, i.var), log[p], i.var)]
              /\ UNCHANGED << pc, stk, dead, stale >>
         [] i.op \in {"write", "writeAdd"} ->
              /\ LET x == IF i.op = "write" THEN i.k ELSE reg[p] + i.k
                     b == NewPayload(p, att[p], ip[p], x)
                 IN /\ log' = [log EXCEPT ![p] = TxWriteLog(log[p], i.var, b)]
                    /\ acc' = [acc EXCEPT ![p] = AfterWrite(@, i.var, b)]
              /\ ip' = [ip EXCEPT ![p] = @ + 1]
              /\ UNCHANGED << reg, pc, stk, dead, stale, seen >>
         [] i.op \in {"const", "some", "none"} ->
              /\ reg' = [reg EXCEPT ![p] =
                           CASE i.op = "const" -> i.k
                             [] i.op = "some" -> OptSome(@)
                             [] i.op = "none" -> OptNone]
              /\ ip' = [ip EXCEPT ![p] = @ + 1]
              /\ UNCHANGED << log, pc, stk, dead, stale, seen, acc >>
         [] i.op = "or" ->
              /\ stk' = [stk EXCEPT ![p] = Append(@, Frame(log[p], i.var, i.k, FALSE))]
              /\ ip' = [ip EXCEPT ![p] = @ + 1]
              /\ UNCHANGED << reg, log, pc, dead, stale, seen, acc >>
         [] i.op = "else" ->
              /\ stk' = [stk EXCEPT ![p] = SubSeq(st, 1, Len(st) - 1)]
              /\ ip' = [ip EXCEPT ![p] = i.k + 1]
              /\ UNCHANGED << reg, log, pc, dead, stale, seen, acc >>
         [] i.op = "end" ->
              /\ log' = [log EXCEPT ![p] = Combine(@, st[Len(st)].copy)]
              /\ stk' = [stk EXCEPT ![p] = SubSeq(st, 1, Len(st) - 1)]
              /\ ip' = [ip EXCEPT ![p] = @ + 1]
              /\ UNCHANGED << reg, pc, dead, stale, seen, acc >>
         [] i.op = "retry" \/ (i.op = "guard" /\ reg[p] = 0) ->
              /\ stk' = [stk EXCEPT ![p] = r.stk]
              /\ log' = [log EXCEPT ![p] = r.log]
              /\ dead' = [dead EXCEPT ![p] = r.dead]
              /\ stale' = [stale EXCEPT ![p] =
                             {v \in @ : r.log[v].kind \in LiveReadKinds}]
              /\ IF r.err = "None"
                 THEN ip' = [ip EXCEPT ![p] = r.ip] /\ pc' = pc
                 ELSE pc' = [pc EXCEPT ![p] = AfterErr(r.err)] /\ ip' = ip
              /\ acc' = [acc EXCEPT ![p] = AfterSwap(@, log[p], r.log)]
              /\ UNCHANGED << reg, seen >>
         [] i.op = "guard" /\ reg[p] # 0 ->
              /\ ip' = [ip EXCEPT ![p] = @ + 1]
              /\ UNCHANGED << reg, log, pc, stk, dead, stale, seen, acc >>
    /\ UNCHANGED << running, scen, woken, cell, lockW, lockR, att, ci, commitOk, ret, okAtt, commitSeq, coordVars, chanVars, dec >>

----------------------------------------------------------------------------
(* Transaction::commit, one lock acquisition or one write-back per step.    *)

\* The locks of p released: what dropping read_vec and write_vec does.
DropReadLocks(p) == [v \in TVars |-> lockR[v] \ {p}]

\* Mutant: the write locks taken so far outlive a commit that fails.
DropWriteLocksKept(p) == lockW

DropWriteLocks(p) == [v \in TVars |-> IF lockW[v] = p THEN 0 ELSE lockW[v]]

\* Mutant: the ReadWrite arm takes the lock without comparing.
ReadWriteConsistentSkipped(p, v) == TRUE

\* if !Arc::ptr_eq(&lock, original) for a ReadWrite entry.
ReadWriteConsistent(p, v) == PtrEq(cell[v], log[p][v].snap)

\* Mutant: the Read arm takes the lock without comparing.
ReadConsistentSkipped(p, v) == TRUE

\* if !Arc::ptr_eq(&lock, original) for a Read entry.
ReadConsistent(p, v) == PtrEq(cell[v], log[p][v].snap)

\* Whether the entry at v lets the first phase go on.
EntryConsistent(p, v) ==
    CASE log[p][v].kind = "ReadWrite" -> ReadWriteConsistent(p, v)
      [] log[p][v].kind = "Read" -> ReadConsistent(p, v)
      [] OTHER -> TRUE

\* Mutant: the first phase stores the new payload as soon as it holds the
\* variable's write lock.
CellOnAcquireEager(p, v) ==
    IF log[p][v].kind \in WritesKinds THEN [cell EXCEPT ![v] = log[p][v].w] ELSE cell

\* The committed payloads while the first phase takes the lock of v: the
\* first phase only queues (value, lock) in write_vec.
CellOnAcquire(p, v) == cell

\* First phase, one entry of the log in key order: take the variable's lock,
\* compare a live read snapshot with the committed payload, return false
\* (dropping every lock taken) on a difference.
CommitAcquire(p) ==
    /\ pc[p] = "commit"
    /\ ci[p] # 0
    /\ LET v == ci[p]
           k == log[p][v].kind
       IN /\ k \in WritesKinds => (lockW[v] = 0 /\ lockR[v] = {})
          /\ k = "Read" => lockW[v] = 0
          /\ cell' = CellOnAcquire(p, v)
          /\ IF EntryConsistent(p, v)
             THEN /\ lockW' = IF k \in WritesKinds THEN [lockW EXCEPT ![v] = p] ELSE lockW
                  /\ lockR' = IF k = "Read" THEN [lockR EXCEPT ![v] = @ \cup {p}] ELSE lockR
                  /\ ci' = [ci EXCEPT ![p] = NextKey(log[p], v)]
                  /\ UNCHANGED << pc, commitOk >>
             ELSE /\ lockW' = DropWriteLocks(p)
                  /\ lockR' = DropReadLocks(p)
                  /\ ci' = [ci EXCEPT ![p] = 0]
                  /\ pc' = [pc EXCEPT ![p] = "committed"]
                  /\ commitOk' = [commitOk EXCEPT ![p] = FALSE]
    /\ UNCHANGED << acc, seen, stk, dead, running, scen, woken, ip, reg, att, log, ret, okAtt, stale, commitSeq, coordVars, chanVars, dec >>

\* Second phase begins: every lock is held and every read validated;
\* drop(read_vec).
CommitDropReads(p) ==
    /\ pc[p] = "commit"
    /\ ci[p] = 0
    /\ lockR' = DropReadLocks(p)
    /\ pc' = [pc EXCEPT ![p] = "commit_write"]
    /\ ci' = [ci EXCEPT ![p] = MinOf(WrittenKeys(log[p]))]
    /\ okAtt' = [okAtt EXCEPT ![p] = att[p]]
    /\ commitSeq' = IF scen.mode = "det"
                    THEN Append(commitSeq, [who |-> p, round |-> round])
                    ELSE commitSeq
    /\ UNCHANGED << acc, seen, stk, dead, running, scen, woken, cell, lockW, ip, reg, att, log, commitOk, ret, stale, coordVars, chanVars, dec >>

\* Mutant: the write-back stores the payload it found under the lock.
PublishedOld(p, v) == cell[v]

\* The payload the write-back stores into v: *lock = value.clone().
Published(p, v) == log[p][v].w

\* Second phase, one element of write_vec: store the payload, release the lock.
CommitWrite(p) ==
    /\ pc[p] = "commit_write"
    /\ ci[p] # 0
    /\ LET v == ci[p] IN
          /\ cell' = [cell EXCEPT ![v] = Published(p, v)]
          /\ lockW' = [lockW EXCEPT ![v] = 0]
          /\ ci' = [ci EXCEPT ![p] = MinOf({u \in WrittenKeys(log[p]) : u > v})]
          /\ stale' = [q \in Procs |->
                         IF q # p /\ log[q][v].kind \in LiveReadKinds
                         THEN stale[q] \cup {v} ELSE stale[q]]
    /\ UNCHANGED << acc, seen, stk, dead, running, scen, woken, lockR, pc, ip, reg, att, log, commitOk, ret, okAtt, commitSeq, coordVars, chanVars, dec >>

\* for var in written { var.wake_all() }: the variables of the entries with
\* a write, each pushed on `written` in the first phase.
Written(l) == WrittenKeys(l)

\* wake_all on every written variable; commit returns true.
CommitWake(p) ==
    /\ pc[p] = "commit_write"
    /\ ci[p] = 0
    /\ pc' = [pc EXCEPT ![p] = "committed"]
    /\ commitOk' = [commitOk EXCEPT ![p] = TRUE]
    /\ woken' = [woken EXCEPT ![p] = Written(log[p])]
    /\ UNCHANGED << acc, seen, stk, dead, running, scen, cell, lockW, lockR, ip, reg, att, log, ci, ret, okAtt, stale, commitSeq, coordVars, chanVars, dec >>

----------------------------------------------------------------------------
(* NonDeterministic::with_control, called by with() with a control that     *)
(* always answers Retry.                                                    *)

\* TransactionGuard::new: assert!(!t.get()) has passed; t.set(true).
GuardNew(p) == running' = [running EXCEPT ![p] = TRUE]

\* Drop for TransactionGuard, when with_control returns or unwinds:
\* t.set(false).
GuardDrop(p) == running' = [running EXCEPT ![p] = FALSE]

\* TransactionGuard::new and the first f(&mut self.tx).
NonDetStart(p) ==
    /\ scen.mode = "nd"
    /\ p \in scen.part
    /\ pc[p] = "idle"
    /\ GuardNew(p)
    /\ pc' = [pc EXCEPT ![p] = "body"]
    /\ ip' = [ip EXCEPT ![p] = 1]
    /\ att' = [att EXCEPT ![p] = 1]
    /\ UNCHANGED << acc, seen, stk, dead, scen, woken, cell, lockW, lockR, reg, log, ci, commitOk, ret, okAtt, stale, commitSeq, coordVars, chanVars, dec >>

\* Ok(t) => self.tx.commit()
NonDetCallCommit(p) ==
    /\ scen.mode = "nd"
    /\ pc[p] = "body"
    /\ ip[p] > Len(Prog(p))
    /\ pc' = [pc EXCEPT ![p] = "commit"]
    /\ ci' = [ci EXCEPT ![p] = FirstKey(log[p])]
    /\ UNCHANGED << acc, seen, stk, dead, running, scen, woken, cell, lockW, lockR, ip, reg, att, log, commitOk, ret, okAtt, stale, commitSeq, coordVars, chanVars, dec >>

\* Mutant: the driver returns whatever commit() answered.
NonDetReturnsAlways(p) == TRUE

\* if self.tx.commit() { return Some(t); }
NonDetReturns(p) == commitOk[p]

\* self.tx.clear() and the next turn of the loop.
Rerun(p) ==
    /\ log' = [log EXCEPT ![p] = EmptyLog]
    /\ dead' = [dead EXCEPT ![p] = {}]
    /\ seen' = [seen EXCEPT ![p] = {}]
    /\ acc' = [acc EXCEPT ![p] = NoAccess]
    /\ att' = [att EXCEPT ![p] = IF @ < MaxAttempts THEN @ + 1 ELSE @]
    /\ ip' = [ip EXCEPT ![p] = 1]
    /\ pc' = [pc EXCEPT ![p] = "body"]
    /\ stale' = [stale EXCEPT ![p] = {}]

\* commit() has returned: return Some(t), or clear the log and run again.
NonDetAfterCommit(p) ==
    /\ scen.mode = "nd"
    /\ pc[p] = "committed"
    /\ IF NonDetReturns(p)
       THEN /\ pc' = [pc EXCEPT ![p] = "done"]
            /\ ret' = [ret EXCEPT ![p] = <<"some", reg[p]>>]
            /\ GuardDrop(p)
            /\ UNCHANGED << log, att, ip, stale, dead, seen, acc >>
       ELSE /\ Rerun(p)
            /\ UNCHANGED << ret, running >>
    /\ UNCHANGED << stk, scen, woken, cell, lockW, lockR, reg, ci, commitOk, okAtt, commitSeq, coordVars, chanVars, dec >>

\* Mutant: the control function asks to abort.
ControlAnswerAbort(p) == "Abort"

\* Mutant: whatever the control function answers, the driver goes on.
ControlAnswerIgnored(p) == "Retry"

\* control(e): with() passes |_| Retry, a caller of with_control its own
\* function.
ControlAnswer(p) == scen.control

\* with_control has returned None: with() answers it with unreachable!(),
\* another caller has its None.
NoneReturned(p) == IF scen.control = "Retry" THEN "panicked" ELSE "aborted"

\* Mutant: after Retry the thread parks and nothing wakes it.
RetryParks(p) == FALSE

\* After control(e) has answered Retry the loop goes round at once: the
\* driver registers on no wait list and does not block.
RetryGoesRound(p) == TRUE

\* Err(e) => control(e): on Abort return None; on Retry clear the log and
\* run again.
NonDetAfterErr(p) ==
    /\ scen.mode = "nd"
    /\ pc[p] \in {"retrying", "failed"}
    /\ IF ControlAnswer(p) = "Abort"
       THEN /\ pc' = [pc EXCEPT ![p] = NoneReturned(p)]
            /\ ret' = [ret EXCEPT ![p] = <<"none">>]
            /\ GuardDrop(p)
            /\ UNCHANGED << log, att, ip, stale, dead, seen, acc >>
       ELSE /\ RetryGoesRound(p)
            /\ Rerun(p)
            /\ UNCHANGED << ret, running >>
    /\ UNCHANGED << stk, scen, woken, cell, lockW, lockR, reg, ci, commitOk, okAtt, commitSeq, coordVars, chanVars, dec >>

----------------------------------------------------------------------------
(* The thread that sets the program up: it spawns the participants and      *)
(* calls freeze, in either order; freeze runs Coordination::coordinate.     *)

Spawn ==
    /\ scen.mode = "det"
    /\ ~spawned
    /\ scen.order = "freeze_first" => cpc = "done"
    /\ spawned' = TRUE
    /\ UNCHANGED << acc, seen, stk, dead, running, scen, woken, tvarVars, pc, bodyVars, att, ci, commitOk, ret, okAtt,
                    stale, commitSeq, cpc, txs, di, retries, round, chanVars, dec >>

\* freeze(dtm): the calling thread runs the coordinator loop.
Freeze ==
    /\ scen.mode = "det"
    /\ cpc = "unfrozen"
    /\ scen.order = "spawn_first" => spawned
    /\ cpc' = "round"
    /\ UNCHANGED << acc, seen, stk, dead, running, scen, woken, tvarVars, pc, bodyVars, att, ci, commitOk, ret, okAtt,
                    stale, commitSeq, spawned, txs, di, retries, round, chanVars, dec >>

\* while self.txs.len() > 0, and the head of assign_channels: the first
\* channel is created and the token sent into it.
RoundBegin ==
    /\ cpc = "round"
    /\ IF Len(txs) = 0
       THEN /\ cpc' = "done"
            /\ UNCHANGED << di, round, tok, rxAlive, txAlive >>
       ELSE /\ cpc' = "assign"
            /\ di' = 1
            /\ round' = round + 1
            /\ tok' = [c \in Chans |-> IF c = 1 THEN 1 ELSE 0]
            /\ rxAlive' = [c \in Chans |-> c = 1]
            /\ txAlive' = [c \in Chans |-> c = 1]
    /\ UNCHANGED << acc, seen, stk, dead, running, scen, woken, tvarVars, pc, bodyVars, att, ci, commitOk, ret, okAtt,
                    stale, commitSeq, spawned, txs, retries, coordQ, doneQ,
                    handleAlive, stateAlive, myRx, myTx, dec >>

\* The participants assign_channels dispatches to: `elements` of
\* self.txs.split_last(), every active participant but the last.
Dispatched(n) == 1..(n - 1)

\* The coordinator panics: its Coordination, with every TxCoordinationState
\* still in it, is dropped.
CoordinatorPanics ==
    /\ cpc' = "panicked"
    /\ stateAlive' = [p \in Procs |-> FALSE]

\* Mutant: the round's channels are sent to the participant twice.
RoundMessagesTwice(q, i) ==
    Append(Append(q, [rx |-> i, tx |-> i + 1]), [rx |-> i, tx |-> i + 1])

\* e.coordination_tx.send((prev_rx, n_tx)): the coordination channel of the
\* i-th active participant after the round's one message is sent into it.
RoundMessages(q, i) == Append(q, [rx |-> i, tx |-> i + 1])

\* for e in elements: a new channel (n_tx, n_rx); (prev_rx, n_tx) is sent to
\* e; prev_rx = n_rx.
AssignDispatch ==
    /\ cpc = "assign"
    /\ di \in Dispatched(Len(txs))
    /\ LET e == txs[di] IN
       IF handleAlive[e]
       THEN /\ coordQ' = [coordQ EXCEPT ![e] = RoundMessages(@, di)]
            /\ rxAlive' = [rxAlive EXCEPT ![di + 1] = TRUE]
            /\ txAlive' = [txAlive EXCEPT ![di + 1] = TRUE]
            /\ di' = di + 1
            /\ UNCHANGED << cpc, stateAlive >>
       ELSE /\ CoordinatorPanics
            /\ rxAlive' = [rxAlive EXCEPT ![di] = FALSE]
            /\ txAlive' = [txAlive EXCEPT ![1] = FALSE]
            /\ UNCHANGED << coordQ, di >>
    /\ UNCHANGED << acc, seen, stk, dead, running, scen, woken, tvarVars, pc, bodyVars, att, ci, commitOk, ret, okAtt,
                    stale, commitSeq, spawned, txs, retries, round, doneQ,
                    handleAlive, tok, myRx, myTx, dec >>

\* assign_channels returns: first_tx and the prev_rx left by the loop go out
\* of scope; the loop over the done channels begins.
AssignReturn ==
    /\ cpc = "assign"
    /\ di \notin Dispatched(Len(txs))
    /\ rxAlive' = [rxAlive EXCEPT ![di] = FALSE]
    /\ tok' = [tok EXCEPT ![di] = 0]
    /\ txAlive' = [txAlive EXCEPT ![1] = FALSE]
    /\ cpc' = "drain"
    /\ di' = 1
    /\ retries' = << >>
    /\ UNCHANGED << acc, seen, stk, dead, running, scen, woken, tvarVars, pc, bodyVars, att, ci, commitOk, ret, okAtt,
                    stale, commitSeq, spawned, txs, round, coordQ, doneQ,
                    handleAlive, stateAlive, myRx, myTx, dec >>

\* for tx in self.txs.drain(..): tx.done_rx.recv(); a Retry keeps the
\* participant, in order; after the last one self.txs = retries.
DrainRecv ==
    /\ cpc = "drain"
    /\ LET t == txs[di] IN
       /\ doneQ[t] # << >> \/ ~handleAlive[t]
       /\ IF doneQ[t] # << >>
          THEN LET d == Head(doneQ[t])
                   r == IF d = "Retry" THEN Append(retries, t) ELSE retries
               IN /\ doneQ' = [doneQ EXCEPT ![t] = Tail(@)]
                  /\ stateAlive' = [stateAlive EXCEPT ![t] = (d = "Retry")]
                  /\ IF di < Len(txs)
                     THEN /\ di' = di + 1
                          /\ retries' = r
                          /\ UNCHANGED << txs, cpc >>
                     ELSE /\ txs' = r
                          /\ retries' = << >>
                          /\ di' = 0
                          /\ cpc' = "round"
          ELSE /\ CoordinatorPanics
               /\ UNCHANGED << doneQ, di, retries, txs >>
    /\ UNCHANGED << acc, seen, stk, dead, running, scen, woken, tvarVars, pc, bodyVars, att, ci, commitOk, ret, okAtt,
                    stale, commitSeq, spawned, round, coordQ, handleAlive, tok,
                    rxAlive, txAlive, myRx, myTx, dec >>

----------------------------------------------------------------------------
(* Deterministic::with_control, called by with() with a control that always *)
(* answers Retry.                                                           *)

\* The endpoints still queued in p's coordination channel.
QueuedRx(p) == {coordQ[p][i].rx : i \in DOMAIN coordQ[p]}

QueuedTx(p) == {coordQ[p][i].tx : i \in DOMAIN coordQ[p]}

\* token_rx and token_tx go out of scope.
DropEndpoints(p) ==
    /\ rxAlive' = [c \in Chans |-> rxAlive[c] /\ c # myRx[p]]
    /\ txAlive' = [c \in Chans |-> txAlive[c] /\ c # myTx[p]]
    /\ myRx' = [myRx EXCEPT ![p] = 0]
    /\ myTx' = [myTx EXCEPT ![p] = 0]

\* The Deterministic of p is dropped (with_control has returned or is
\* unwinding): its handle, its endpoints and whatever is still queued for it.
ParticipantGone(p) ==
    /\ handleAlive' = [handleAlive EXCEPT ![p] = FALSE]
    /\ rxAlive' = [c \in Chans |-> rxAlive[c] /\ c \notin ({myRx[p]} \cup QueuedRx(p))]
    /\ txAlive' = [c \in Chans |-> txAlive[c] /\ c \notin ({myTx[p]} \cup QueuedTx(p))]
    /\ myRx' = [myRx EXCEPT ![p] = 0]
    /\ myTx' = [myTx EXCEPT ![p] = 0]
    /\ coordQ' = [coordQ EXCEPT ![p] = << >>]

\* An expect() fails, or with() reaches unreachable!(): the thread unwinds.
ParticipantPanics(p) ==
    /\ pc' = [pc EXCEPT ![p] = "panicked"]
    /\ ParticipantGone(p)
    /\ GuardDrop(p)

\* TransactionGuard::new on the spawned thread.
DetStart(p) ==
    /\ scen.mode = "det"
    /\ p \in scen.part
    /\ spawned
    /\ pc[p] = "idle"
    /\ GuardNew(p)
    /\ pc' = [pc EXCEPT ![p] = "d_recv"]
    /\ UNCHANGED << acc, seen, stk, dead, scen, woken, tvarVars, bodyVars, att, ci, commitOk, ret, okAtt, stale,
                    commitSeq, coordVars, chanVars, dec >>

\* self.handle.coordination_rx.recv(): the round's (token_rx, token_tx), then
\* f(&mut self.tx) starts.
DetRecvChannels(p) ==
    /\ pc[p] = "d_recv"
    /\ coordQ[p] # << >> \/ ~stateAlive[p]
    /\ IF coordQ[p] # << >>
       THEN /\ att[p] < MaxAttempts
            /\ myRx' = [myRx EXCEPT ![p] = Head(coordQ[p]).rx]
            /\ myTx' = [myTx EXCEPT ![p] = Head(coordQ[p]).tx]
            /\ coordQ' = [coordQ EXCEPT ![p] = Tail(@)]
            /\ pc' = [pc EXCEPT ![p] = "body"]
            /\ ip' = [ip EXCEPT ![p] = 1]
            /\ att' = [att EXCEPT ![p] = @ + 1]
            /\ UNCHANGED << handleAlive, rxAlive, txAlive, running >>
       ELSE /\ ParticipantPanics(p)
            /\ UNCHANGED << ip, att >>
    /\ UNCHANGED << acc, seen, stk, dead, scen, woken, tvarVars, reg, log, ci, commitOk, ret, okAtt, stale,
                    commitSeq, coordVars, doneQ, stateAlive, tok, dec >>

\* Mutant: the participant goes on to commit without the token.
TokenNotAwaited(p) == TRUE

\* token_rx.recv() returns Ok(token): the predecessor has sent the token.
TokenArrived(p) == tok[myRx[p]] > 0

\* Err(e) => (control(e), None): the decision after the body's error,
\* (Retry, None) or (Abort, None).
DecisionAfterErr(p) == IF ControlAnswer(p) = "Abort" THEN "AbortNone" ELSE "Retry"

\* token_rx.recv(): with the token, Ok(t) calls commit and Err(e) asks
\* control; a disconnected channel makes with_control return None.
DetRecvToken(p) ==
    /\ scen.mode = "det"
    /\ (pc[p] = "body" /\ ip[p] > Len(Prog(p))) \/ pc[p] \in {"retrying", "failed"}
    /\ TokenArrived(p) \/ ~txAlive[myRx[p]]
    /\ IF TokenArrived(p)
       THEN /\ tok' = [tok EXCEPT ![myRx[p]] = @ - 1]
            /\ IF pc[p] = "body"
               THEN /\ pc' = [pc EXCEPT ![p] = "commit"]
                    /\ ci' = [ci EXCEPT ![p] = FirstKey(log[p])]
                    /\ dec' = dec
               ELSE /\ pc' = [pc EXCEPT ![p] = "d_pass"]
                    /\ dec' = [dec EXCEPT ![p] = DecisionAfterErr(p)]
                    /\ ci' = ci
            /\ UNCHANGED << coordQ, handleAlive, rxAlive, txAlive, myRx, myTx, running, ret >>
       ELSE /\ pc' = [pc EXCEPT ![p] = NoneReturned(p)]
            /\ ret' = [ret EXCEPT ![p] = <<"none">>]
            /\ ParticipantGone(p)
            /\ GuardDrop(p)
            /\ UNCHANGED << tok, ci, dec >>
    /\ UNCHANGED << acc, seen, stk, dead, scen, woken, tvarVars, bodyVars, att, commitOk, okAtt, stale,
                    commitSeq, coordVars, doneQ, stateAlive >>

\* The decision once commit() has returned: (Abort, Some(t)) or (Retry, None).
DecisionAfterCommit(p) == IF commitOk[p] THEN "Abort" ELSE "Retry"

\* token_tx.send(token).expect(..): whatever happened, pass the token along.
DetPassToken(p) ==
    /\ scen.mode = "det"
    /\ pc[p] \in {"committed", "d_pass"}
    /\ IF rxAlive[myTx[p]]
       THEN /\ tok' = [tok EXCEPT ![myTx[p]] = @ + 1]
            /\ dec' = [dec EXCEPT ![p] =
                         IF pc[p] = "committed" THEN DecisionAfterCommit(p) ELSE @]
            /\ pc' = [pc EXCEPT ![p] = "d_report"]
            /\ UNCHANGED << coordQ, handleAlive, rxAlive, txAlive, myRx, myTx, running >>
       ELSE /\ ParticipantPanics(p)
            /\ UNCHANGED << tok, dec >>
    /\ UNCHANGED << acc, seen, stk, dead, scen, woken, tvarVars, bodyVars, att, ci, commitOk, ret, okAtt, stale,
                    commitSeq, coordVars, doneQ, stateAlive >>

\* Report the decision on done_tx: Completed and return Some(t) or None, or
\* clear the log, report Retry and go round the loop.
DetReport(p) ==
    /\ pc[p] = "d_report"
    /\ IF ~stateAlive[p]
       THEN /\ ParticipantPanics(p)
            /\ UNCHANGED << doneQ, ret, log, stale, dead, seen, acc >>
       ELSE IF dec[p] = "Abort"
       THEN /\ doneQ' = [doneQ EXCEPT ![p] = Append(@, "Completed")]
            /\ pc' = [pc EXCEPT ![p] = "done"]
            /\ ret' = [ret EXCEPT ![p] = <<"some", reg[p]>>]
            /\ ParticipantGone(p)
            /\ GuardDrop(p)
            /\ UNCHANGED << log, stale, dead, seen, acc >>
       ELSE IF dec[p] = "AbortNone"
       THEN /\ doneQ' = [doneQ EXCEPT ![p] = Append(@, "Completed")]
            /\ pc' = [pc EXCEPT ![p] = NoneReturned(p)]
            /\ ret' = [ret EXCEPT ![p] = <<"none">>]
            /\ ParticipantGone(p)
            /\ GuardDrop(p)
            /\ UNCHANGED << log, stale, dead, seen, acc >>
       ELSE /\ log' = [log EXCEPT ![p] = EmptyLog]
            /\ dead' = [dead EXCEPT ![p] = {}]
            /\ seen' = [seen EXCEPT ![p] = {}]
            /\ acc' = [acc EXCEPT ![p] = NoAccess]
            /\ stale' = [stale EXCEPT ![p] = {}]
            /\ doneQ' = [doneQ EXCEPT ![p] = Append(@, "Retry")]
            /\ pc' = [pc EXCEPT ![p] = "d_recv"]
            /\ DropEndpoints(p)
            /\ UNCHANGED << ret, handleAlive, coordQ, running >>
    /\ UNCHANGED << stk, scen, woken, tvarVars, ip, reg, att, ci, commitOk, okAtt, commitSeq,
                    coordVars, stateAlive, tok, dec >>

----------------------------------------------------------------------------
(* A driver started inside a body.                                          *)

\* Mutant: TransactionGuard::new does not look at the flag.
NestedNotDetected(p) == FALSE

\* assert!(!t.get(), "STM: Nested Transaction") fails.
NestedDetected(p) == running[p]

\* The body calls with() itself: TransactionGuard::new of the inner driver.
\* When the assertion fails the thread unwinds, the guard of the outer
\* driver is dropped and, in deterministic mode, so is its handle.
\* Otherwise the inner driver runs its body, commits its empty log and
\* returns, dropping its own guard.
NestedStart(p) ==
    /\ pc[p] = "body"
    /\ ip[p] <= Len(Prog(p))
    /\ Prog(p)[ip[p]].op = "nested"
    /\ IF NestedDetected(p)
       THEN /\ pc' = [pc EXCEPT ![p] = "panicked"]
            /\ GuardDrop(p)
            /\ IF scen.mode = "det"
               THEN ParticipantGone(p)
               ELSE UNCHANGED << handleAlive, rxAlive, txAlive, myRx, myTx, coordQ >>
            /\ ip' = ip
       ELSE /\ ip' = [ip EXCEPT ![p] = @ + 1]
            /\ GuardDrop(p)
            /\ UNCHANGED << pc, handleAlive, rxAlive, txAlive, myRx, myTx, coordQ >>
    /\ UNCHANGED << acc, seen, stk, dead, scen, woken, cell, lockW, lockR, reg, att, log, ci, commitOk, ret,
                    okAtt, stale, commitSeq, coordVars, doneQ, stateAlive, tok, dec >>

----------------------------------------------------------------------------
(* A body that panics.                                                      *)

\* Mutant: the log of the attempt outlives the panic.
UnwoundLogKept(p) == log[p]

\* The Transaction after the unwinding: it is a field of the driver object,
\* a temporary of with(), which is dropped with everything in its log.
UnwoundLog(p) == EmptyLog

\* f(&mut self.tx) panics: the thread unwinds through the calls of or in
\* progress and through with_control, which drops the guard; commit() is
\* never called.  In deterministic mode the handle goes with the driver.
BodyPanics(p) ==
    /\ pc[p] = "body"
    /\ ip[p] <= Len(Prog(p))
    /\ Prog(p)[ip[p]].op = "panic"
    /\ pc' = [pc EXCEPT ![p] = "panicked"]
    /\ log' = [log EXCEPT ![p] = UnwoundLog(p)]
    /\ stk' = [stk EXCEPT ![p] = << >>]
    /\ GuardDrop(p)
    /\ IF scen.mode = "det"
       THEN ParticipantGone(p)
       ELSE UNCHANGED << handleAlive, rxAlive, txAlive, myRx, myTx, coordQ >>
    /\ UNCHANGED << acc, seen, dead, scen, woken, cell, lockW, lockR, ip, reg, att, ci, commitOk, ret,
                    okAtt, stale, commitSeq, coordVars, doneQ, stateAlive, tok, dec >>

----------------------------------------------------------------------------
\* The steps of thread p.
ProcNext(p) ==
    \/ BodyStep(p)
    \/ NestedStart(p)
    \/ BodyPanics(p)
    \/ CommitAcquire(p)
    \/ CommitDropReads(p)
    \/ CommitWrite(p)
    \/ CommitWake(p)
    \/ NonDetStart(p)
    \/ NonDetCallCommit(p)
    \/ NonDetAfterCommit(p)
    \/ NonDetAfterErr(p)
    \/ DetStart(p)
    \/ DetRecvChannels(p)
    \/ DetRecvToken(p)
    \/ DetPassToken(p)
    \/ DetReport(p)

\* The steps of the thread that sets up and coordinates.
CoordNext ==
    \/ Spawn
    \/ Freeze
    \/ RoundBegin
    \/ AssignDispatch
    \/ AssignReturn
    \/ DrainRecv

Next == (\E p \in Procs : ProcNext(p)) \/ CoordNext

Spec == Init /\ [][Next]_vars

\* Preemptive OS threads: a thread that can take a step eventually takes one.
FairSpec ==
    Spec /\ WF_vars(CoordNext) /\ \A p \in Procs : WF_vars(ProcNext(p))

\* No thread can take a step: each has returned, panicked or blocks for ever.
Quiescent == ~ENABLED Next

----------------------------------------------------------------------------
(* Properties of commit and of the non-deterministic driver.                *)

\* commit() of p holds every lock of its log and has validated every read:
\* from here it publishes and returns true.
HoldsAllLocks(p) == pc[p] = "commit" /\ ci[p] = 0

\* C1: when a commit that goes on to return true holds its locks, every
\* Read or ReadWrite entry's snapshot is, by identity, the committed payload
\* of its variable (a commit that meets a differing entry returns false
\* before it gets there).
C1_ValidatedReadsMatch ==
    \A p \in Procs :
        HoldsAllLocks(p) =>
            \A v \in TVars :
                log[p][v].kind \in LiveReadKinds => log[p][v].snap.id = cell[v].id

\* C1 witness: an attempt that was re-run after a failed validation holds its
\* locks with a Read entry in its log.
C1_Witness ==
    \E p \in Procs :
        /\ HoldsAllLocks(p)
        /\ att[p] > 1
        /\ \E v \in TVars : log[p][v].kind = "Read"

\* The payload was created by tx.write in an attempt that has not passed
\* validation.
Unpublished(b) == b.id[1] # 0 /\ okAtt[b.id[1]] # b.id[2]

\* C2: no committed payload, and no snapshot in the log of another thread,
\* is a payload written by an attempt whose commit has not succeeded.
C2_UncommittedWritesInvisible ==
    /\ \A v \in TVars : ~Unpublished(cell[v])
    /\ \A p \in Procs : \A v \in TVars :
         (log[p][v].kind \in LiveReadKinds /\ log[p][v].snap.id[1] # p)
             => ~Unpublished(log[p][v].snap)

\* C2 witness: a thread whose first attempt wrote and failed validation has
\* committed a later attempt, and its payload is the committed one.
C2_Witness ==
    \E p \in Procs : \E v \in TVars :
        /\ pc[p] = "done"
        /\ att[p] > 1
        /\ cell[v].id[1] = p
        /\ cell[v].id[2] = att[p]

\* The program of read_write_interfere: x = v.read(); v.write(x + 1) against
\* v.write(3).
IsInterfere ==
    /\ scen.mode = "nd"
    /\ scen.part = {1, 2}
    /\ scen.prog[1] = BodyIncr(1, 1)
    /\ scen.prog[2] = BodyWrite(1, 3)

\* C3: an attempt that has read a variable another transaction has since
\* committed a write to never passes validation; in read_write_interfere
\* the final value is 3 (the increment committed first) or 4 (the increment
\* re-run on 3), never the increment of the stale 0 written over the 3.
C3_NoLostUpdate ==
    /\ \A p \in Procs : HoldsAllLocks(p) => stale[p] = {}
    /\ (IsInterfere /\ pc[1] = "done" /\ pc[2] = "done") => cell[1].val \in {3, 4}

\* C3 witness: the incrementing transaction failed validation, re-ran and
\* committed 4.
C3_Witness ==
    /\ IsInterfere
    /\ pc[1] = "done"
    /\ pc[2] = "done"
    /\ att[1] > 1
    /\ cell[1].val = 4

\* commit() of p has returned true.
CommitSucceeded(p) ==
    okAtt[p] # 0 /\ okAtt[p] = att[p] /\ pc[p] \notin {"commit", "commit_write"}

\* C4: once two transactions that both wrote v have finished their commits
\* (and no third commit is publishing), the committed payload of v is the
\* payload written by one of the two.
C4_OneWriterWins ==
    \A v \in TVars : \A p, q \in Procs :
        ( /\ p # q
          /\ CommitSucceeded(p)
          /\ CommitSucceeded(q)
          /\ v \in WrittenKeys(log[p]) \cap WrittenKeys(log[q])
          /\ \A r \in Procs \ {p, q} : okAtt[r] = 0 )
        => cell[v] \in {log[p][v].w, log[q][v].w}

\* C4 witness: two transactions that wrote both variables have committed.
C4_Witness ==
    /\ CommitSucceeded(1)
    /\ CommitSucceeded(2)
    /\ WrittenKeys(log[1]) = TVars
    /\ WrittenKeys(log[2]) = TVars
    /\ okAtt[3] = 0

\* C5: a driver that has returned returned Some(value) of the attempt whose
\* commit succeeded: the current attempt passed validation and commit
\* returned true.
C5_ReturnsCommittedAttempt ==
    \A p \in Procs :
        /\ pc[p] = "done" =>
              /\ ret[p] = <<"some", reg[p]>>
              /\ okAtt[p] = att[p]
              /\ commitOk[p]
        /\ ret[p][1] = "some" => pc[p] = "done"

\* C5 witness: a driver returned after an attempt that did not commit.
C5_Witness ==
    \E p \in Procs : pc[p] = "done" /\ att[p] > 1 /\ ret[p][1] = "some"

----------------------------------------------------------------------------
(* Properties of the deterministic mode.                                    *)

\* C6 as stated: the successful commits, in the order they happen, are the
\* registration order: the i-th commit is by the i-th registered participant.
C6_CommitsInRegistrationOrder ==
    \A i \in DOMAIN commitSeq : commitSeq[i].who = i

\* C6 (amended): within one round the successful commits happen in
\* registration order: of two commits of the same round the earlier is by
\* the participant registered earlier.  (A participant whose attempt ended
\* in Retry has not committed when later ones of its round commit.)
C6_CommitsOrderedWithinRound ==
    \A i, j \in DOMAIN commitSeq :
        (i < j /\ commitSeq[i].round = commitSeq[j].round)
            => commitSeq[i].who < commitSeq[j].who

\* C6 witness: two participants have committed in one round.
C6_Witness ==
    /\ Len(commitSeq) >= 2
    /\ commitSeq[1].round = commitSeq[2].round

\* The program: H1 writes 1 to v, H2 writes v + 1 to w, H3 writes 3 to v.
IsChain ==
    /\ scen.mode = "det"
    /\ scen.prog = Progs(BodyWrite(1, 1), BodyCopy(1, 2, 1), BodyWrite(1, 3))

\* C7: determinism, for the program IsChain: two runs that differ only in
\* the schedule come to rest with the same values, so every run that has
\* come to rest has the w = 2 of the run C7_RestsWithCopy reaches.
C7_AlwaysRestsWithCopy == (IsChain /\ spawned /\ Quiescent) => cell[2].val = 2

\* C7 witness: a run of IsChain has come to rest with w = 2 (H2 ran its body
\* after H1's commit).
C7_RestsWithCopy == IsChain /\ spawned /\ Quiescent /\ cell[2].val = 2

\* The programs of deterministic_dep_order: every participant writes its own
\* number to v.
IsWriters ==
    /\ scen.mode = "det"
    /\ \A p \in scen.part : scen.prog[p] = BodyWrite(1, p)

\* C8: when every participant unconditionally writes its number to v, the
\* run ends with every det_atomically returned and v holding the number of
\* the participant registered last.
C8_LastRegisteredWins ==
    (IsWriters /\ spawned /\ Quiescent) =>
        /\ \A p \in scen.part : pc[p] = "done"
        /\ cell[1].val = Cardinality(scen.part)

\* C9: termination: once the handles are driven on their threads and freeze
\* has been called, with bodies that always succeed, the coordinator loop
\* ends with an empty active list and every det_atomically returns.
C9_DetTerminates ==
    (IsWriters /\ spawned /\ cpc # "unfrozen")
        ~> (cpc = "done" /\ txs = << >> /\ \A p \in scen.part : pc[p] = "done")

\* C10, for freeze called after the threads are spawned: the run ends with
\* the calling thread past freeze, every participant complete and v holding
\* the last participant's number.
C10_FreezeAfterSpawn ==
    (IsWriters /\ scen.order = "spawn_first" /\ Quiescent) =>
        /\ cpc = "done"
        /\ \A p \in scen.part : pc[p] = "done"
        /\ cell[1].val = Cardinality(scen.part)

----------------------------------------------------------------------------
(* Constraints 1 and 2 of the deterministic protocol.                       *)

\* Participant p is between token_rx.recv() returning Ok(token) and
\* token_tx.send(token).
HoldsToken(p) ==
    /\ scen.mode = "det"
    /\ pc[p] \in {"commit", "commit_write", "committed", "d_pass"}

\* Where a participant is once it has forwarded the token of its attempt.
PastToken == {"d_report", "d_recv", "done", "panicked", "aborted"}

\* Where a participant is while it has not yet received the token.
BeforeToken == {"idle", "d_recv", "body", "retrying", "panicked"}

\* C11: a deterministic participant is inside commit() only between the
\* receipt of the token and its forwarding; at most one participant is
\* there at a time, and then no token is in any channel; the participants
\* registered before it have forwarded the token of their attempt and those
\* registered after it have not yet received it, so the commit attempts of
\* a round happen in chain order.
C11_CommitOnlyWithToken ==
    scen.mode = "det" =>
        /\ Cardinality({p \in Procs : HoldsToken(p)}) <= 1
        /\ \A p \in Procs :
             HoldsToken(p) =>
                /\ \A c \in Chans : tok[c] = 0
                /\ \A q \in scen.part :
                     /\ q < p => (att[q] >= 1 /\ pc[q] \in PastToken)
                     /\ q > p => pc[q] \in BeforeToken

\* C11 witness: the second participant of the chain is in commit() with the
\* token, its predecessor having forwarded it.
C11_Witness ==
    /\ HoldsToken(2)
    /\ pc[2] = "commit"
    /\ att[1] >= 1
    /\ pc[1] \in PastToken

\* The Retry of p's attempt is on its way to the coordinator, or the
\* coordinator has received it and the round is not yet concluded.
ReportedRetry(p) ==
    \/ \E i \in DOMAIN doneQ[p] : doneQ[p][i] = "Retry"
    \/ \E i \in DOMAIN retries : retries[i] = p

\* C12: a participant has started at most as many attempts as rounds have
\* been dispatched, and one that has reported Retry waits on its
\* coordination channel, with nothing in it, for as long as the round it
\* reported in is not concluded: it runs its body again only on channels
\* the coordinator dispatches after receiving every done signal of the round.
C12_RoundBarrier ==
    scen.mode = "det" =>
        \A p \in scen.part :
            /\ att[p] <= round
            /\ ReportedRetry(p) =>
                  /\ att[p] = round
                  /\ pc[p] \in {"d_recv", "panicked"}
                  /\ coordQ[p] = << >>

\* C12 witness: a participant has reported Retry, the coordinator has
\* received it, and the participant waits at the top of its loop.
C12_Witness ==
    \E p \in Procs :
        /\ \E i \in DOMAIN retries : retries[i] = p
        /\ pc[p] = "d_recv"
        /\ att[p] >= 1

----------------------------------------------------------------------------
(* Retry in the non-deterministic driver.                                   *)

\* The program of threaded: thread 1 reads v and retries while it is 0,
\* thread 2 writes 3 to v.
IsThreaded ==
    /\ scen.mode = "nd"
    /\ scen.control = "Retry"
    /\ scen.prog[1] = BodyWait(1)
    /\ scen.prog[2] = BodyWrite(1, 3)

\* C13: no lost wake-up: in threaded, whenever the waiting transaction has
\* retried after reading v, whether the write to v is committed before,
\* during or after that, it eventually runs its body again and returns the
\* value written.
C13_NoLostWakeup ==
    (IsThreaded /\ pc[1] = "retrying" /\ log[1][1].kind = "Read")
        ~> (pc[1] = "done" /\ ret[1] = <<"some", 3>>)

\* C13 witness: the waiting transaction retried on the old value, the write
\* was committed, and the transaction has returned the new value.
C13_Witness ==
    /\ IsThreaded
    /\ att[1] > 1
    /\ pc[1] = "done"
    /\ ret[1] = <<"some", 3>>
    /\ pc[2] = "done"

\* The entries that carry a read snapshot.
SnapshotKinds == {"Read", "ReadWrite", "ReadObsolete", "ReadObsoleteWrite"}

\* A commit has replaced the payload of a variable the log of p holds a
\* snapshot of: what wakes a thread enrolled on that variable's wait list.
ObservedChanged(p) ==
    \E v \in TVars :
        /\ log[p][v].kind \in SnapshotKinds
        /\ ~PtrEq(cell[v], log[p][v].snap)

\* C14: a thread whose body returned Retry waits on the variables it has
\* read: it runs the body again only after a commit has replaced the
\* payload of one of the variables its log holds a snapshot of.
C14_RerunsOnlyAfterWake ==
    [][\A p \in Procs :
          (scen.mode = "nd" /\ pc[p] = "retrying" /\ pc'[p] = "body")
              => ObservedChanged(p)]_vars

\* The program of infinite_retry: one thread runs atomically(|_| retry()).
IsInfiniteRetry ==
    /\ scen.mode = "nd"
    /\ scen.control = "Retry"
    /\ scen.part = {1}
    /\ scen.prog[1] = BodyRetry

\* C15: atomically of a body that always retries, with no other thread
\* committing, never returns (nor panics) and every variable keeps the
\* payload it was created with.
C15_RetryNeverReturns ==
    IsInfiniteRetry =>
        /\ pc[1] \notin {"done", "panicked"}
        /\ ret[1] = <<"pending">>
        /\ \A v \in TVars : cell[v] = InitialPayload(v)

\* C15 witness: the body has retried more than once and is retrying again.
C15_Witness ==
    /\ IsInfiniteRetry
    /\ att[1] > 2
    /\ pc[1] = "retrying"

----------------------------------------------------------------------------
(* Properties of Transaction::or.                                           *)

\* Thread 1 runs the body b.
Runs(b) == scen.mode = "nd" /\ scen.prog[1] = b

\* C16: the writes of a first closure of or that retried are rolled back:
\* no log holds a payload written in a closure given up, no variable is
\* ever given one, and the second closure reads what the log held before
\* or was entered (the 5 of BodyOrRollback) or the committed value (the 0
\* or 3 of or_nocommit), never the 7 the first closure wrote.
C16_AbandonedWritesRolledBack ==
    /\ \A p \in Procs : \A v \in TVars :
         log[p][v].kind \in WritesKinds => log[p][v].w.id \notin dead[p]
    /\ \A p \in Procs : \A v \in TVars : cell[v].id \notin dead[p]
    /\ (Runs(BodyOrRollback) /\ pc[1] = "done") =>
          /\ ret[1] = <<"some", 5>>
          /\ cell[1].val = 5
          /\ cell[2].val \in {3, 6}
    /\ (Runs(BodyOrNoCommit) /\ pc[1] = "done") => ret[1] \in {<<"some", 0>>, <<"some", 3>>}

\* C16 witness: the first closure wrote both variables and retried, the
\* second closure ran, and the transaction has committed its 5 and 6.
C16_Witness ==
    /\ Runs(BodyOrRollback)
    /\ pc[1] = "done"
    /\ Cardinality(dead[1]) = 2
    /\ cell[1].val = 5
    /\ cell[2].val = 6

\* C17: wait-set union: once the calls of or in a body have returned, the
\* log holds a snapshot-carrying entry for every variable whose committed
\* value the attempt has read, in whichever closure, kept or given up.
C17_WaitSetUnion ==
    \A p \in Procs :
        (pc[p] = "body" /\ stk[p] = << >>) =>
            \A v \in seen[p] : log[p][v].kind \in SnapshotKinds

\* Thread 1 runs f, thread 2 tx.or(|_| retry(), f) and thread 3
\* tx.or(f, |_| retry()), each after the same accesses.
IsLaws ==
    /\ scen.mode = "nd"
    /\ scen.prog \in {Laws(LawPrefix, LawBody), Laws(LawPrefixB, LawBodyB)}

\* The body of p has returned Ok and commit() has not been called yet.
BodyReturned(p) == pc[p] = "body" /\ ip[p] > Len(Prog(p)) /\ stk[p] = << >>

\* Two logs that commit the same: the same kind of entry for every
\* variable, the same snapshots to validate and the same values to publish.
SameEffect(l1, l2) ==
    \A v \in TVars :
        /\ l1[v].kind = l2[v].kind
        /\ PtrEq(l1[v].snap, l2[v].snap)
        /\ l1[v].w.val = l2[v].w.val

\* C18: run from the same log against the same committed values (nothing
\* has been published yet), or(retry, f) and or(f, retry) each return what
\* f returns and leave a log with the effect of the log f leaves.
C18_OrIdentity ==
    \A p \in {2, 3} :
        ( /\ IsLaws
          /\ BodyReturned(1)
          /\ BodyReturned(p)
          /\ \A v \in TVars : cell[v] = InitialPayload(v) )
        => (SameEffect(log[1], log[p]) /\ reg[1] = reg[p])

\* C18 witness: the three bodies have returned before any commit, f having
\* read one variable and written both.
C18_Witness ==
    /\ IsLaws
    /\ \A p \in Procs : BodyReturned(p)
    /\ \A v \in TVars : cell[v] = InitialPayload(v)
    /\ log[1][1].kind = "Write"
    /\ log[1][2].kind = "ReadWrite"
    /\ reg[1] = 5

\* C19: an or whose closures both retried returns Retry, never Failure: no
\* body ever returns Failure to its driver, and in or_nested_first the
\* outer or therefore runs its second closure, so the transaction returns
\* the value of the variable (0, or the 3 the other thread writes).
C19_DoubleRetryIsRetry ==
    /\ \A p \in Procs : pc[p] # "failed"
    /\ (Runs(BodyOrNestedFirst) /\ pc[1] \in {"commit", "commit_write", "committed", "done"})
          => (reg[1] \in {0, 3} /\ log[1][1].kind = "Read")
    /\ (Runs(BodyOrNestedFirst) /\ pc[1] = "done") => ret[1] \in {<<"some", 0>>, <<"some", 3>>}

\* C19 witness: or_nested_first has returned the variable's value from its
\* first attempt.
C19_Witness ==
    /\ Runs(BodyOrNestedFirst)
    /\ pc[1] = "done"
    /\ att[1] = 1
    /\ ret[1] = <<"some", 3>>

\* A driver is active on thread p: it has been entered and has neither
\* returned nor unwound.
DriverActive(p) == pc[p] \notin {"idle", "done", "panicked", "aborted"}

\* C20: TRANSACTION_RUNNING of a thread is set exactly while a driver is
\* active on that thread, so whatever another thread does, and it is clear
\* after the driver returned or unwound; a driver started inside a body
\* panics before its body runs, so no body ever gets past the call, and
\* a thread that panicked has returned no value.
C20_GuardWhileDriverActive ==
    /\ \A p \in Procs : running[p] <=> DriverActive(p)
    /\ \A p \in Procs : \A i \in 1..Len(Prog(p)) :
          Prog(p)[i].op = "nested" => (ip[p] <= i /\ pc[p] # "done")
    /\ \A p \in Procs : pc[p] = "panicked" => ret[p][1] # "some"

\* C20 witness: the thread running transaction_nested_fail's body has
\* panicked at the inner with(), its flag is clear again, and the other
\* thread's transaction has committed its write and returned.
C20_Witness ==
    /\ Runs(BodyNested)
    /\ pc[1] = "panicked"
    /\ ip[1] = 1
    /\ ~running[1]
    /\ pc[2] = "done"
    /\ cell[1].val = 3

----------------------------------------------------------------------------
(* Panics and the control function.                                         *)

\* The body of p panicked: the thread unwound from the panic!() it is at.
PanickedInBody(p) ==
    /\ pc[p] = "panicked"
    /\ ip[p] <= Len(Prog(p))
    /\ Prog(p)[ip[p]].op = "panic"

\* C21: once the body of a transaction has panicked, the thread holds no
\* lock of any variable, no committed payload is one the transaction
\* wrote, the writes in its log are gone with the log, the calls of or in
\* progress and the running flag are unwound, and the driver has returned
\* nothing: the panic went to the caller.
C21_PanicCommitsNothing ==
    \A p \in Procs :
        PanickedInBody(p) =>
            /\ \A v \in TVars : lockW[v] # p /\ p \notin lockR[v]
            /\ \A v \in TVars : cell[v].id[1] # p
            /\ WrittenKeys(log[p]) = {}
            /\ log[p] = EmptyLog
            /\ stk[p] = << >>
            /\ ~running[p]
            /\ okAtt[p] = 0
            /\ ret[p] = << "pending" >>

\* C21 witness: the body retried, ran again, wrote and panicked, while the
\* other thread's transaction committed and returned.
C21_Witness ==
    /\ Runs(BodyPanicAfterWait)
    /\ PanickedInBody(1)
    /\ att[1] > 1
    /\ pc[2] = "done"
    /\ cell[1].val = 3
    /\ cell[2] = InitialPayload(2)

\* The last call of the body of p returned an error: it ended at a retry()
\* or at a guard that failed.
BodyErrored(p) ==
    /\ ip[p] <= Len(Prog(p))
    /\ Prog(p)[ip[p]].op \in {"retry", "guard"}

\* The driver of p returned None because the control function said Abort.
AbortedByControl(p) ==
    /\ pc[p] = "aborted"
    /\ scen.mode = "det" => dec[p] = "AbortNone"

\* The program of transaction_with_control_abort_on_retry.
IsAbortOnRetry ==
    /\ scen.mode = "nd"
    /\ scen.control = "Abort"
    /\ scen.prog[1] = BodyRetry

\* Thread 1 reads v and retries while it is 0, thread 2 writes 3 to v, both
\* through with_control with a control that always aborts.
IsAbortOnWait ==
    /\ scen.mode = "nd"
    /\ scen.control = "Abort"
    /\ scen.prog[1] = BodyWait(1)

\* C22: a driver that returned None on the control function's Abort did so
\* with the control function |_| Abort, after a call of the body that
\* returned an error (so never after a failed validation), and without
\* commit: it holds no lock and no committed payload is one it wrote.  With
\* |_| Abort a body error ends the driver at once: abort_on_retry makes one
\* attempt and returns no value, and the waiting body returns either None
\* (it read 0) or Some(3), from its only attempt.  A driver that returns
\* Some returns the value of an attempt whose commit succeeded, also with
\* |_| Abort.
C22_ControlOnlyOnBodyError ==
    /\ \A p \in Procs :
         AbortedByControl(p) =>
            /\ scen.control = "Abort"
            /\ BodyErrored(p)
            /\ ret[p] = << "none" >>
            /\ okAtt[p] = 0
            /\ \A v \in TVars : cell[v].id[1] # p /\ lockW[v] # p /\ p \notin lockR[v]
    /\ IsAbortOnRetry => (att[1] <= 1 /\ pc[1] # "done")
    /\ IsAbortOnWait =>
         /\ att[1] <= 1
         /\ pc[1] = "aborted" => reg[1] = 0
         /\ pc[1] = "done" => ret[1] = << "some", 3 >>
    /\ \A p \in Procs :
         (scen.control = "Abort" /\ pc[p] = "done") =>
            (ret[p] = << "some", reg[p] >> /\ commitOk[p] /\ okAtt[p] = att[p])

\* C22 witness: with the control function |_| Abort the incrementing
\* transaction failed validation, ran again without the control function
\* ending it, committed its 4 and returned Some.
C22_Witness ==
    /\ scen.control = "Abort"
    /\ scen.prog[1] = BodyIncr(1, 1)
    /\ pc[1] = "done"
    /\ att[1] > 1
    /\ ret[1][1] = "some"
    /\ cell[1].val = 4

----------------------------------------------------------------------------
(* What read returns within one attempt.                                    *)

\* Thread p is about to call var.read(tx) on v.
AtRead(p, v) ==
    /\ pc[p] = "body"
    /\ ip[p] <= Len(Prog(p))
    /\ Prog(p)[ip[p]].op = "read"
    /\ Prog(p)[ip[p]].var = v

\* The value of the attempt's most recent write to v (not counting the
\* writes or has rolled back) if there is one, else the snapshot of its
\* first read of v, else whatever is committed.
LatestOfAttempt(p, v) ==
    IF acc[p].w[v] # NoPayload THEN acc[p].w[v].val
    ELSE IF acc[p].first[v] # NoPayload THEN acc[p].first[v].val
    ELSE cell[v].val

----------------------------------------------------------------------------
(* optionally                                                               *)

\* C24: optionally returns Ok(Some(v)) when its body returns Ok(v) and
\* Ok(None) when its body retries: optionally_succeed returns Some(42),
\* optionally_fail None, a body that waits for v returns None or Some(3).
\* When the body retried, its writes are not in the log the enclosing body
\* returns with nor ever committed, while the enclosing body's earlier
\* write of 5 stays in the log and is committed; when the body returned
\* Ok, its writes are committed too.
C24_OptionallyAbsentOnRetry ==
    /\ (Runs(BodyOptSucceed) /\ pc[1] = "done") => ret[1] = << "some", OptSome(42) >>
    /\ (Runs(BodyOptFail) /\ pc[1] = "done") => ret[1] = << "some", OptNone >>
    /\ (Runs(BodyOptWait) /\ pc[1] = "done") =>
          ret[1] \in { << "some", OptNone >>, << "some", OptSome(3) >> }
    /\ (Runs(BodyOptRollback) /\ BodyReturned(1)) =>
          /\ reg[1] = OptNone
          /\ log[1][1].kind = "Write" /\ log[1][1].w.val = 5
          /\ log[1][2].kind = "None"
    /\ (Runs(BodyOptRollback) /\ pc[1] = "done") =>
          /\ ret[1] = << "some", OptNone >>
          /\ cell[1].val = 5
          /\ cell[2].val \in {0, 3}
    /\ Runs(BodyOptRollback) => \A v \in TVars : cell[v].val # 7
    /\ (Runs(BodyOptKeep) /\ pc[1] = "done") =>
          /\ ret[1] = << "some", OptSome(5) >>
          /\ cell[1].val = 5
          /\ cell[2].val \in {3, 7}

\* C24 witness: the body of optionally wrote both variables and retried,
\* optionally returned None, and the transaction has committed the 5
\* written before optionally and returned.
C24_Witness ==
    /\ Runs(BodyOptRollback)
    /\ pc[1] = "done"
    /\ ret[1] = << "some", OptNone >>
    /\ Cardinality(dead[1]) = 2
    /\ cell[1].val = 5
    /\ cell[1].id[1] = 1

----------------------------------------------------------------------------
(* Commit: locking order, payload identity, and a commit that fails.        *)

\* commit() of p is blocked taking the lock of the entry it is at, and q
\* holds a lock that blocks it.
WaitsFor(p, q) ==
    /\ p # q
    /\ pc[p] = "commit"
    /\ ci[p] # 0
    /\ LET v == ci[p]
           k == log[p][v].kind
       IN \/ k \in WritesKinds /\ (lockW[v] = q \/ q \in lockR[v])
          \/ k = "Read" /\ lockW[v] = q

\* No set of commits waits in a cycle.
NoCyclicWait ==
    /\ \A p, q \in Procs : ~(WaitsFor(p, q) /\ WaitsFor(q, p))
    /\ \A p, q, r \in Procs : ~(WaitsFor(p, q) /\ WaitsFor(q, r) /\ WaitsFor(r, p))

\* Two commits hold locks at once, the second one waiting for a lock the
\* first one holds.
HoldsSomeLock(p) == \E v \in TVars : lockW[v] = p \/ p \in lockR[v]

\* C25: commits never wait for each other in a cycle, and every commit()
\* that has been called returns (true or false).
C25_CommitDeadlockFree ==
    /\ []NoCyclicWait
    /\ \A p \in Procs :
         (pc[p] \in {"commit", "commit_write"}) ~> (pc[p] = "committed")

\* C25 witness: two transactions that wrote the same two variables in
\* opposite orders are both in commit(), one holding the first variable's
\* lock and the other waiting for it.
C25_Witness ==
    /\ scen.prog[1] = BodyWriteBoth(1)
    /\ scen.prog[2] = BodyWriteBothRev(2)
    /\ \E p, q \in {1, 2} : HoldsSomeLock(q) /\ WaitsFor(p, q) /\ ci[p] = 1

----------------------------------------------------------------------------
(* The rounds of the deterministic coordinator.                             *)

\* Participant e has been sent the channels of the current round: they are
\* in its coordination channel or it has taken them and started the
\* round's attempt.
HasRoundChannels(e) == coordQ[e] # << >> \/ att[e] = round

\* C26: once assign_channels has returned, every active participant, the
\* last one in order included, has been sent the round's pair of channels
\* (unless its thread has panicked), and a participant that forwards the
\* token finds the receiving end of its successor channel alive.
C26_EveryActiveDispatched ==
    /\ cpc = "drain" =>
          \A i \in DOMAIN txs :
              pc[txs[i]] = "panicked" \/ HasRoundChannels(txs[i])
    /\ \A p \in Procs :
          (scen.mode = "det" /\ pc[p] \in {"committed", "d_pass"}) => rxAlive[myTx[p]]

\* The tokens of the round: those in the channels and those held.
TokensInRound ==
    LET RECURSIVE InChans(_)
        InChans(S) == IF S = {} THEN 0
                      ELSE LET c == CHOOSE x \in S : TRUE
                           IN tok[c] + InChans(S \ {c})
    IN InChans(Chans) + Cardinality({p \in Procs : HoldsToken(p)})

\* C27: a round never has more than one token; a participant that holds the
\* token gives it up only by sending it to its successor, once, whatever
\* the outcome of its attempt; a done signal is sent only after that; and
\* when the coordinator has collected the last done signal of a round no
\* token is left in the chain before a participant.
C27_TokenForwardedOnce ==
    [][ /\ TokensInRound' <= 1
        /\ \A p \in Procs :
              (HoldsToken(p) /\ ~HoldsToken(p)') =>
                 /\ tok'[myTx[p]] = tok[myTx[p]] + 1
                 /\ pc'[p] = "d_report"
        /\ \A p \in Procs :
              Len(doneQ'[p]) > Len(doneQ[p]) => pc[p] = "d_report"
        /\ (cpc = "drain" /\ cpc' = "round") =>
              /\ \A p \in Procs : ~HoldsToken(p)
              /\ \A i \in DOMAIN txs : tok[i] = 0
      ]_vars

\* The coordinator has a Retry of participant p from the round being
\* collected: read from done_rx and pushed on `retries`, or still in the
\* done channel.
RetryReported(p) ==
    \/ \E i \in DOMAIN retries : retries[i] = p
    \/ \E i \in DOMAIN doneQ[p] : doneQ[p][i] = "Retry"

\* Participant p has sent Completed and with_control has returned.
CompletedReported(p) ==
    scen.mode = "det" /\ att[p] >= 1 /\ pc[p] \in {"done", "aborted"}

\* C28: between two rounds the active list holds, in registration order,
\* exactly the participants that reported Retry in the round just
\* collected; a participant that reported Completed is sent no further
\* channels; and when the program has come to rest with no Retry reported
\* in the round, the coordinator's loop has ended.
C28_ActiveListIsRetries ==
    /\ (cpc = "round" /\ round > 0) =>
          /\ \A i, j \in DOMAIN txs : i < j => txs[i] < txs[j]
          /\ \A p \in Procs :
                (\E i \in DOMAIN txs : txs[i] = p) <=>
                   (p \in scen.part /\ pc[p] = "d_recv" /\ att[p] = round)
    /\ \A p \in Procs : CompletedReported(p) => coordQ[p] = << >>
    /\ (scen.mode = "det" /\ Quiescent /\ cpc # "panicked"
          /\ \A p \in Procs : ~RetryReported(p)) => cpc = "done"

----------------------------------------------------------------------------
(* Validation by identity, and a commit that fails.                         *)

\* The first phase of p's commit() has gone through the whole log: every
\* lock is held and no comparison has failed.
ValidatedAll(p) == pc[p] = "commit" /\ ci[p] = 0

\* The committed payload of v holds the value p read but is not the payload
\* p read: another commit has stored an equal value since.
ReplacedByEqual(p, v) ==
    /\ log[p][v].kind \in LiveReadKinds
    /\ cell[v].val = log[p][v].snap.val
    /\ cell[v].id # log[p][v].snap.id

\* C29: a commit never passes validation while a variable it read (and did
\* not give up) holds a payload other than the one read, even one holding an
\* equal value.
C29_ValidatesIdentity ==
    \A p \in Procs : \A v \in TVars :
        (ValidatedAll(p) /\ log[p][v].kind \in LiveReadKinds) =>
            /\ cell[v].id = log[p][v].snap.id
            /\ ~ReplacedByEqual(p, v)

\* C29 witness: thread 1 read 0 from both variables, thread 2 committed 3 to variable 1,
\* thread 3 then committed 0 again; thread 1's commit found the restored
\* but distinct payload, returned false, and thread 1 is running again.
C29_Witness ==
    /\ scen.prog[1] = BodyReadBoth
    /\ scen.prog[3] = BodyWrite(1, 0)
    /\ pc[2] = "done"
    /\ cell[1] = NewPayload(3, 1, 1, 0)
    /\ att[1] = 2
    /\ seen[1] # {}

\* The step in which commit() of p returns false.
CommitFails(p) ==
    /\ pc[p] = "commit"
    /\ pc'[p] = "committed"
    /\ ~commitOk'[p]

\* C30: the step in which a commit() returns false changes no committed
\* payload, leaves none of this attempt's payloads committed (also not in a
\* variable earlier in key order whose write lock it had taken), has called
\* wake_all on nothing and leaves the thread without any lock; and a
\* committed payload changes only in the write-back of a commit that has
\* gone through its whole log, validated its reads and still holds the
\* write lock of everything it has yet to publish.
C30_FailedCommitPublishesNothing ==
    [][ /\ \A p \in Procs :
              CommitFails(p) =>
                 /\ cell' = cell
                 /\ \A v \in TVars : cell'[v].id[1] = p => cell'[v].id[2] # att[p]
                 /\ woken'[p] = {}
                 /\ \A v \in TVars : lockW'[v] # p /\ p \notin lockR'[v]
        /\ \A v \in TVars :
              cell'[v] # cell[v] =>
                 \E p \in Procs :
                    /\ pc[p] = "commit_write"
                    /\ okAtt[p] = att[p]
                    /\ cell'[v] = log[p][v].w
                    /\ \A u \in WrittenKeys(log[p]) : u >= ci[p] => lockW[u] = p
      ]_vars

\* C30 witness: the commit of a body that read variable 2 and wrote
\* variable 1 took the write lock of variable 1, found variable 2 replaced
\* and returned false: variable 1 holds its initial payload, unlocked.
C30_Witness ==
    /\ scen.prog[1] = BodyCopy(2, 1, 1)
    /\ pc[1] = "committed"
    /\ ~commitOk[1]
    /\ log[1][1].kind = "Write"
    /\ 2 \in stale[1]
    /\ cell[1] = InitialPayload(1)
    /\ lockW[1] = 0
    /\ woken[1] = {}

----------------------------------------------------------------------------
(* Reads that a commit does not validate.                                   *)

----------------------------------------------------------------------------
(* The fatal states of a deterministic run.                                 *)

\* A well-formed deterministic program: at least one registered handle,
\* each driven by det_atomically (with(), whose control answers Retry) on a
\* thread of its own, and no body that panics or starts a driver itself.
WellFormedDet ==
    /\ scen.mode = "det"
    /\ scen.part # {}
    /\ scen.control = "Retry"
    /\ \A p \in scen.part :
          \A i \in DOMAIN Prog(p) : Prog(p)[i].op \notin {"panic", "nested"}

\* An expect() of the coordinator or of a participant has failed, or
\* with_control has returned None to with(), which reaches unreachable!().
FatalState ==
    \/ cpc = "panicked"
    \/ \E p \in Procs : pc[p] = "panicked" \/ ret[p] = << "none" >>

\* C32: a well-formed deterministic run reaches no fatal state: no expect
\* on a channel fails in the coordinator or in a participant, no
\* participant finds its token receiver disconnected, and with() does not
\* reach unreachable!().
C32_NoFatalState == WellFormedDet => ~FatalState

====
